---- MODULE Spec2Model ----
(***************************************************************************)
(* VoxGuard AI (src/main.py): the /detect-voice endpoint, the lazily       *)
(* loaded process-wide Whisper handle, language identification and the     *)
(* fixed-threshold authenticity score.                                     *)
(*                                                                         *)
(* detect_voice is an `async def` handler, so every request runs on the    *)
(* one event-loop thread of the process.  A request gives up the thread    *)
(* only at `await file.read()` (line 249); the code before it (the two     *)
(* checks) and the code after it (decode, identify_language,               *)
(* analyze_voice_nature, the response) each run without interruption.      *)
(*                                                                         *)
(* Numbers: a score or confidence x is held as the integer x * 10000;      *)
(* spectral flatness is held in units of 0.001, energy variance in units  *)
(* of 0.0001, pitch variance in units of 1, onset variance in units of    *)
(* 0.01.                                                                   *)
(***************************************************************************)
EXTENDS Integers, Sequences, FiniteSets

\* ------------------------------------------------------------------ bounds
\* Number of request slots: how many requests can be in flight at once.
NumRequests == 2
\* How many times whisper.load_model may raise during one run of the model.
MaxLoadFailures == 2

Requests == 1..NumRequests

\* --------------------------------------------------------------- constants
None == "None"
API_KEY == "my_secret_key_123"

LANGUAGE_LABELS ==
    [c \in {"en", "ta", "hi", "te", "ml"} |->
        CASE c = "en" -> "English"
          [] c = "ta" -> "Tamil"
          [] c = "hi" -> "Hindi"
          [] c = "te" -> "Telugu"
          [] c = "ml" -> "Malayalam"]

\* 1.0 and the two decimals kept by round(x, 2), in units of 0.0001
One == 10000
Cent == 100

FlatnessThreshold == 18
FlatnessWeight == 3500
EnergyThreshold == 15
EnergyWeight == 2500
PitchThreshold == 12
PitchWeight == 2500
OnsetThreshold == 2
OnsetWeight == 1500
AiThreshold == 8000
ShortConfidence == 5000
WhisperRate == 16000

\* ------------------------------------------------------------------ inputs
\* x-api-key header values: absent (Header(None)), and three strings.
Keys == {None, "", "MY_SECRET_KEY_123", API_KEY}

\* Upload filenames, as sequences of characters.
Filenames ==
    { <<"c", ".", "t", "x", "t">>,
      <<"w", "a", "v">>,
      <<"a", ".", "w", "a", "v", "e">>,
      <<"m", "p", "3", ".", "t", "x", "t">>,
      <<".", "w", "a", "v">>,
      <<"a", ".", "w", "a", "v">>,
      <<"A", ".", "W", "A", "V">>,
      <<"b", ".", "M", "p", "3">>,
      <<"c", ".", "m", "p", "3">> }

NoAudio == [n |-> 0, sr |-> 0]
\* Decoded clips: n samples at sr Hz.  Just under 1 s, exactly 1 s, 20 s,
\* and clips at a rate that identify_language has to resample.
Clips ==
    { [n |-> 15999, sr |-> 16000],
      [n |-> 16000, sr |-> 16000],
      [n |-> 320000, sr |-> 16000],
      [n |-> 7999, sr |-> 8000],
      [n |-> 8000, sr |-> 8000] }

Codes == {"en", "ta", "hi", "te", "ml", "fr"}
NoProbs == [c \in Codes |-> 0]
\* Language distributions returned by model.detect_language, in percent.
ProbsSet == { [c \in Codes |-> IF c = top THEN 70 ELSE 6] : top \in Codes }

NoLang == [raises |-> "unreached", probs |-> NoProbs]
NoYin == [kind |-> "unreached", var |-> 0]
NoFx == [raises |-> "unreached", flatness |-> 0, energy |-> 0,
         yin |-> NoYin, onset |-> 0]

\* What the libraries do inside identify_language for one request: the call
\* that raises ("none" when none does) and the distribution detected.
\* librosa.resample is only called when the rate differs from 16000, and
\* whisper.load_model only while the handle is unset.
LangEnvs(audio, model, failures) ==
    {[raises |-> "none", probs |-> p] : p \in ProbsSet}
    \cup {[raises |-> s, probs |-> NoProbs] :
             s \in {"pad_or_trim", "log_mel_spectrogram", "detect_language"}}
    \cup (IF audio.sr # WhisperRate
            THEN {[raises |-> "resample", probs |-> NoProbs]} ELSE {})
    \cup (IF model = None /\ failures < MaxLoadFailures
            THEN {[raises |-> "load_model", probs |-> NoProbs]} ELSE {})

\* What the libraries do inside analyze_voice_nature for one request.
YinOutcomes ==
    {[kind |-> "raise", var |-> 0], [kind |-> "empty", var |-> 0]}
    \cup {[kind |-> "values", var |-> v] :
             v \in {PitchThreshold - 1, PitchThreshold}}

FxEnvs ==
    {[raises |-> "none", flatness |-> f, energy |-> e, yin |-> y, onset |-> o] :
        f \in {FlatnessThreshold - 1, FlatnessThreshold},
        e \in {EnergyThreshold - 1, EnergyThreshold},
        y \in YinOutcomes,
        o \in {OnsetThreshold - 1, OnsetThreshold}}
    \cup {[NoFx EXCEPT !.raises = s] :
             s \in {"spectral_flatness", "rms", "onset_strength"}}


\* ------------------------------------------------------------ str methods
Uppers == <<"A", "B", "C", "D", "E", "F", "G", "H", "I", "J", "K", "L", "M",
            "N", "O", "P", "Q", "R", "S", "T", "U", "V", "W", "X", "Y", "Z">>
Lowers == <<"a", "b", "c", "d", "e", "f", "g", "h", "i", "j", "k", "l", "m",
            "n", "o", "p", "q", "r", "s", "t", "u", "v", "w", "x", "y", "z">>

\* str.lower(): every upper-case letter is replaced, the rest is kept.
lower(s) ==
    [i \in 1..Len(s) |->
        IF \E k \in 1..Len(Uppers) : Uppers[k] = s[i]
          THEN Lowers[CHOOSE k \in 1..Len(Uppers) : Uppers[k] = s[i]]
          ELSE s[i]]

\* str.endswith(tuple): some suffix of the tuple ends the string.
endswith(s, suffixes) ==
    \E x \in suffixes :
        /\ Len(s) >= Len(x)
        /\ SubSeq(s, Len(s) - Len(x) + 1, Len(s)) = x

Extensions == { <<".", "m", "p", "3">>, <<".", "w", "a", "v">> }

\* Variant of extension_ok that forgets .lower().
extension_ok_case_sensitive(filename) == endswith(filename, Extensions)

\* The filename test of detect_voice (line 245).
extension_ok(filename) == endswith(lower(filename), Extensions)

\* round(x, 2) for x >= 0: to the nearest hundredth, a tie to the even one.
round2(x) ==
    LET q == x \div Cent
        r == x % Cent
    IN  IF 2 * r < Cent THEN q * Cent
        ELSE IF 2 * r > Cent THEN (q + 1) * Cent
        ELSE IF q % 2 = 0 THEN q * Cent ELSE (q + 1) * Cent

min(a, b) == IF a < b THEN a ELSE b

\* max(probs, key=probs.get): a code of the highest probability.
top_code(probs) ==
    CHOOSE c \in DOMAIN probs : \A d \in DOMAIN probs : probs[d] <= probs[c]

\* Variant of get_whisper_model without the `global` statement: the loaded
\* model is returned but the global stays as it was.
get_whisper_model_unstored(model, loadOK) ==
    IF model = None
      THEN IF loadOK
             THEN [handle |-> "tiny", stored |-> model, raised |-> FALSE,
                   load |-> "ok"]
             ELSE [handle |-> None, stored |-> model, raised |-> TRUE,
                   load |-> "fail"]
      ELSE [handle |-> model, stored |-> model, raised |-> FALSE,
            load |-> "none"]

\* Variant of get_whisper_model that loads on every call (no `is None` test).
get_whisper_model_reload(model, loadOK) ==
    IF loadOK
      THEN [handle |-> "tiny", stored |-> "tiny", raised |-> FALSE,
            load |-> "ok"]
      ELSE [handle |-> None, stored |-> model, raised |-> TRUE,
            load |-> "fail"]

\* ------------------------------------------------------ get_whisper_model
\* model is the global whisper_model on entry, loadOK tells whether
\* whisper.load_model returns (TRUE) or raises (FALSE) if it is called.
\* stored is the global on exit, load tells what the loader did.
get_whisper_model(model, loadOK) ==
    IF model = None
      THEN IF loadOK
             THEN [handle |-> "tiny", stored |-> "tiny", raised |-> FALSE,
                   load |-> "ok"]
             ELSE [handle |-> None, stored |-> None, raised |-> TRUE,
                   load |-> "fail"]
      ELSE [handle |-> model, stored |-> model, raised |-> FALSE,
            load |-> "none"]

\* ------------------------------------------------------ identify_language
\* Variant of identify_language that falls back to the code itself, as
\* LANGUAGE_LABELS.get(lang_code, lang_code) would.
identify_language_raw_code(audio, model, env) ==
    IF audio.sr # WhisperRate /\ env.raises = "resample"
      THEN [label |-> "Unknown", stored |-> model, load |-> "none",
            calledGet |-> FALSE, failed |-> TRUE]
      ELSE
        LET g == get_whisper_model(model, env.raises # "load_model")
        IN  IF g.raised \/ env.raises # "none"
              THEN [label |-> "Unknown", stored |-> g.stored, load |-> g.load,
                    calledGet |-> TRUE, failed |-> TRUE]
              ELSE [label |-> IF top_code(env.probs) \in DOMAIN LANGUAGE_LABELS
                                THEN LANGUAGE_LABELS[top_code(env.probs)]
                                ELSE top_code(env.probs),
                    stored |-> g.stored, load |-> g.load,
                    calledGet |-> TRUE, failed |-> FALSE]

\* Everything runs inside one try block; any exception gives "Unknown".
identify_language(audio, model, env) ==
    IF audio.sr # WhisperRate /\ env.raises = "resample"
      THEN [label |-> "Unknown", stored |-> model, load |-> "none",
            calledGet |-> FALSE, failed |-> TRUE]
      ELSE
        LET g == get_whisper_model(model, env.raises # "load_model")
        IN  IF g.raised
              THEN [label |-> "Unknown", stored |-> g.stored, load |-> g.load,
                    calledGet |-> TRUE, failed |-> TRUE]
            ELSE IF env.raises \in {"pad_or_trim", "log_mel_spectrogram",
                                    "detect_language"}
              THEN [label |-> "Unknown", stored |-> g.stored, load |-> g.load,
                    calledGet |-> TRUE, failed |-> TRUE]
            ELSE
              LET lang_code == top_code(env.probs)
              IN  [label |-> IF lang_code \in DOMAIN LANGUAGE_LABELS
                               THEN LANGUAGE_LABELS[lang_code]
                               ELSE "Unknown",
                   stored |-> g.stored, load |-> g.load,
                   calledGet |-> TRUE, failed |-> FALSE]

\* --------------------------------------------------- analyze_voice_nature
\* Lines 85-90: the variance of the pitch estimates, 0 when librosa.yin
\* raises or leaves no estimate.
pitch_variation(yin) ==
    IF yin.kind = "values" THEN yin.var ELSE 0

\* Variant of score_of with `<=` in the place of `<`.
score_of_inclusive(fx) ==
    LET s1 == IF fx.flatness <= FlatnessThreshold THEN FlatnessWeight ELSE 0
        s2 == IF fx.energy <= EnergyThreshold THEN s1 + EnergyWeight ELSE s1
        s3 == IF pitch_variation(fx.yin) <= PitchThreshold
                THEN s2 + PitchWeight ELSE s2
        s4 == IF fx.onset <= OnsetThreshold THEN s3 + OnsetWeight ELSE s3
    IN  min(s4, One)

\* Lines 95-106: the score, in units of 0.0001.
score_of(fx) ==
    LET s0 == 0
        s1 == IF fx.flatness < FlatnessThreshold THEN s0 + FlatnessWeight ELSE s0
        s2 == IF fx.energy < EnergyThreshold THEN s1 + EnergyWeight ELSE s1
        s3 == IF pitch_variation(fx.yin) < PitchThreshold
                THEN s2 + PitchWeight ELSE s2
        s4 == IF fx.onset < OnsetThreshold THEN s3 + OnsetWeight ELSE s3
    IN  min(s4, One)

\* Variant of analyze_voice_nature that swallows every extractor failure.
analyze_voice_nature_swallow(fx) ==
    IF fx.raises # "none"
      THEN [raised |-> FALSE, score |-> 0]
      ELSE [raised |-> FALSE, score |-> score_of(fx)]

\* spectral_flatness, rms and onset_strength are called outside any try
\* block: an exception of theirs leaves the function.
analyze_voice_nature(fx) ==
    IF fx.raises # "none"
      THEN [raised |-> TRUE, score |-> 0]
      ELSE [raised |-> FALSE, score |-> score_of(fx)]


\* ----------------------------------------------------------- detect_voice
\* What one uninterrupted run of detect_voice did.  seg tells which part
\* ran: "checks" (lines 242-246, up to the await) or "process" (lines
\* 249-280, from the await to the response).  status 0: no response yet.
\* trace lists the stages the run entered, in order.  language is the value
\* identify_language returned, detected_language the one in the 200 body.
NoRun ==
    [seg |-> "none", key |-> None, filename |-> <<>>,
     status |-> 0, detail |-> "", classification |-> "", confidence |-> -1,
     detected_language |-> "", language |-> "", trace |-> <<>>,
     readOK |-> FALSE, decoded |-> FALSE, audio |-> NoAudio,
     lang |-> NoLang, fx |-> NoFx,
     calledGet |-> FALSE, load |-> "none", peerLoaded |-> FALSE]

\* Variant of detect_voice_checks that tests the extension before the key.
detect_voice_checks_swapped(key, filename) ==
    LET run == [NoRun EXCEPT !.seg = "checks", !.key = key,
                             !.filename = filename]
    IN  IF ~extension_ok(filename)
          THEN [run EXCEPT !.status = 400,
                           !.detail = "Upload MP3 or WAV audio.",
                           !.trace = <<"extension">>]
        ELSE IF key # API_KEY
          THEN [run EXCEPT !.status = 401, !.detail = "Access denied.",
                           !.trace = <<"extension", "auth">>]
        ELSE [run EXCEPT !.trace = <<"extension", "auth">>]

\* Lines 242-246: the API key, then the filename extension.
detect_voice_checks(key, filename) ==
    LET run == [NoRun EXCEPT !.seg = "checks", !.key = key,
                             !.filename = filename]
    IN  IF key # API_KEY
          THEN [run EXCEPT !.status = 401, !.detail = "Access denied.",
                           !.trace = <<"auth">>]
        ELSE IF ~extension_ok(filename)
          THEN [run EXCEPT !.status = 400,
                           !.detail = "Upload MP3 or WAV audio.",
                           !.trace = <<"auth", "extension">>]
        ELSE [run EXCEPT !.trace = <<"auth", "extension">>]

\* Line 278-280: the handler of every exception of the try block.
processing_failed(run) ==
    [run EXCEPT !.status = 500, !.detail = "Audio processing failed."]

\* Variant of decide with the threshold 0.75.
decide_low(run, score) ==
    LET ai_probability == round2(score)
    IN  IF ai_probability >= 7500
          THEN [run EXCEPT !.status = 200,
                           !.classification = "AI-Generated Voice",
                           !.confidence = ai_probability,
                           !.detected_language = run.language]
          ELSE [run EXCEPT !.status = 200,
                           !.classification = "Human Voice",
                           !.confidence = round2(One - ai_probability),
                           !.detected_language = run.language]

\* Lines 263-276: the decision on the score.
decide(run, score) ==
    LET ai_probability == round2(score)
    IN  IF ai_probability >= AiThreshold
          THEN [run EXCEPT !.status = 200,
                           !.classification = "AI-Generated Voice",
                           !.confidence = ai_probability,
                           !.detected_language = run.language]
          ELSE [run EXCEPT !.status = 200,
                           !.classification = "Human Voice",
                           !.confidence = round2(One - ai_probability),
                           !.detected_language = run.language]

\* Variant of too_short with a limit of half a second.
too_short_half(audio) == 2 * audio.n < audio.sr

\* Line 256: the clip lasts less than one second.
too_short(audio) == audio.n < audio.sr

\* Lines 249-280.  readOK: file.read() returns; dec: what librosa.load
\* does; env, fx: what the libraries do in identify_language and in
\* analyze_voice_nature.  The result carries the inputs, the response and,
\* in stored, the value of the global whisper_model afterwards.
detect_voice_process(model, readOK, dec, env, fx) ==
    LET run0 == [NoRun EXCEPT !.seg = "process", !.readOK = readOK,
                              !.decoded = dec.ok, !.audio = dec.audio,
                              !.lang = env, !.fx = fx,
                              !.trace = <<"read">>]
    IN  IF ~readOK
          THEN [run |-> processing_failed(run0), stored |-> model]
        ELSE IF ~dec.ok
          THEN [run |-> processing_failed(
                           [run0 EXCEPT !.trace = <<"read", "decode">>]),
                stored |-> model]
        ELSE
          LET audio == dec.audio
              id == identify_language(audio, model, env)
              run1 == [run0 EXCEPT
                         !.trace = <<"read", "decode", "identify_language">>,
                         !.language = id.label,
                         !.calledGet = id.calledGet,
                         !.load = id.load]
          IN  IF too_short(audio)
                THEN [run |-> [run1 EXCEPT
                                 !.status = 200,
                                 !.classification = "Human Voice",
                                 !.confidence = ShortConfidence,
                                 !.detected_language = id.label],
                      stored |-> id.stored]
              ELSE
                LET a == analyze_voice_nature(fx)
                    run2 == [run1 EXCEPT
                               !.trace = Append(run1.trace,
                                                "analyze_voice_nature")]
                IN  IF a.raised
                      THEN [run |-> processing_failed(run2),
                            stored |-> id.stored]
                      ELSE [run |-> decide(run2, a.score),
                            stored |-> id.stored]

\* ------------------------------------------------------------------ state
VARIABLES
    whisper_model,  \* the global handle: None or the loaded model
    loadLog,        \* one entry per call of whisper.load_model: "ok"/"fail"
    req,            \* per slot: the request suspended at the await, if any
    out             \* the run of detect_voice that has just ended, or NoRun

vars == <<whisper_model, loadLog, req, out>>

Idle == [pc |-> "idle", peerLoaded |-> FALSE]

failures == Cardinality({i \in 1..Len(loadLog) : loadLog[i] = "fail"})

Decodes == {[ok |-> FALSE, audio |-> NoAudio]}
           \cup {[ok |-> TRUE, audio |-> c] : c \in Clips}

Init ==
    /\ whisper_model = None
    /\ loadLog = <<>>
    /\ req = [r \in Requests |-> Idle]
    /\ out = NoRun

\* A request arrives in slot r: detect_voice runs up to `await file.read()`
\* or to the 401/400 response.
Arrive(r) ==
    /\ out.seg = "none"
    /\ req[r].pc = "idle"
    /\ \E key \in Keys, filename \in Filenames :
          LET run == detect_voice_checks(key, filename)
          IN  /\ out' = run
              /\ req' = IF run.status = 0
                          THEN [req EXCEPT ![r] = [pc |-> "reading",
                                                   peerLoaded |-> FALSE]]
                          ELSE req
    /\ UNCHANGED <<whisper_model, loadLog>>

\* The read of request r is over: detect_voice runs from the await to its
\* response.  Every other request in flight notes whether this run called
\* the loader.
Process(r) ==
    /\ out.seg = "none"
    /\ req[r].pc = "reading"
    /\ \E readOK \in BOOLEAN :
       \E dec \in IF readOK THEN Decodes ELSE {[ok |-> FALSE, audio |-> NoAudio]} :
       \E env \in IF dec.ok THEN LangEnvs(dec.audio, whisper_model, failures)
                            ELSE {NoLang} :
       \E fx \in IF dec.ok THEN FxEnvs ELSE {NoFx} :
          LET res == detect_voice_process(whisper_model, readOK, dec, env, fx)
          IN  /\ out' = [res.run EXCEPT !.peerLoaded = req[r].peerLoaded]
              /\ whisper_model' = res.stored
              /\ loadLog' = IF res.run.load = "none"
                              THEN loadLog
                              ELSE Append(loadLog, res.run.load)
              /\ req' = [q \in Requests |->
                           IF q = r THEN Idle
                           ELSE IF req[q].pc = "reading"
                             THEN [req[q] EXCEPT !.peerLoaded =
                                     req[q].peerLoaded \/ res.run.load # "none"]
                           ELSE req[q]]

\* The run that has just ended hands the thread back to the event loop
\* (suspended at the await, or its response returned or raised).
Yield ==
    /\ out.seg # "none"
    /\ out' = NoRun
    /\ UNCHANGED <<whisper_model, loadLog, req>>

Next ==
    \/ \E r \in Requests : Arrive(r)
    \/ \E r \in Requests : Process(r)
    \/ Yield

Spec == Init /\ [][Next]_vars

TypeOK ==
    /\ whisper_model \in {None, "tiny"}
    /\ loadLog \in Seq({"ok", "fail"})
    /\ \A r \in Requests : req[r].pc \in {"idle", "reading"}
    /\ out.seg \in {"none", "checks", "process"}
    /\ out.status \in {0, 200, 400, 401, 500}


\* ================================================================ claims
Stages(run) == {run.trace[i] : i \in 1..Len(run.trace)}
Processed == out.seg = "process"
Checked == out.seg = "checks"
Okays == {i \in 1..Len(loadLog) : loadLog[i] = "ok"}

\* C1 as stated: of the requests in flight together while the handle is
\* unset, one executes whisper.load_model; a request that was in flight
\* while another one executed the loader never executes it itself.
C1_AsStated ==
    ~(Processed /\ out.peerLoaded /\ out.load # "none")

\* C1 amended: whisper.load_model returns a model at most once in a process
\* and is never called after it has; the handle is set exactly when a load
\* has returned; a request that was in flight while another one executed
\* the loader executes it again only if that load raised.
C1_LoadedOnce ==
    /\ \A i \in Okays : i = Len(loadLog)
    /\ (whisper_model # None) <=> (Okays # {})
    /\ (Processed /\ out.peerLoaded /\ out.load # "none") =>
           /\ Len(loadLog) >= 2
           /\ loadLog[Len(loadLog) - 1] = "fail"

\* Two requests were in flight together with the handle unset; one loaded
\* the model, the other went through get_whisper_model and reused it.
C1_Witness ==
    /\ Processed
    /\ out.peerLoaded
    /\ out.calledGet
    /\ out.load = "none"
    /\ loadLog = <<"ok">>

\* C2 as stated: once get_whisper_model has been called (the first call
\* always reaches the loader, so loadLog is not empty), no later call
\* calls whisper.load_model.
C2_AsStated ==
    [][loadLog # <<>> => loadLog' = loadLog]_vars

\* C2 amended: once get_whisper_model has stored a handle, every later call
\* returns that handle and whisper.load_model is not called again.
C2_NoReload ==
    [][whisper_model # None =>
          /\ whisper_model' = whisper_model
          /\ loadLog' = loadLog]_vars

\* A request that arrived after the model was loaded went through
\* get_whisper_model without a load.
C2_Witness ==
    /\ Processed
    /\ ~out.peerLoaded
    /\ out.calledGet
    /\ out.load = "none"
    /\ whisper_model = "tiny"
    /\ loadLog = <<"ok">>

\* C3: a request whose x-api-key is absent or is not the secret gets 401,
\* whatever its filename, and only the key test has run.
C3_AuthFirst ==
    (Checked /\ out.key # "my_secret_key_123") =>
        /\ out.status = 401
        /\ out.trace = <<"auth">>

\* A request without the header and with a rejected extension got 401.
C3_Witness ==
    /\ Checked
    /\ out.key = None
    /\ out.filename = <<"c", ".", "t", "x", "t">>
    /\ out.status = 401

\* The filename ends in ".wav" or ".mp3", letter case aside.
EndsInWavOrMp3(f) ==
    LET n == Len(f)
    IN  /\ n >= 4
        /\ f[n - 3] = "."
        /\ \/ f[n - 2] \in {"w", "W"} /\ f[n - 1] \in {"a", "A"}
                                      /\ f[n] \in {"v", "V"}
           \/ f[n - 2] \in {"m", "M"} /\ f[n - 1] \in {"p", "P"}
                                      /\ f[n] = "3"

\* C4: with the right key, a filename that does not end in ".wav" or ".mp3"
\* (case-insensitively) gets 400 before anything is read; one that does
\* passes the check and the request goes on to read the upload.
C4_Extension ==
    (Checked /\ out.key = "my_secret_key_123") =>
        IF EndsInWavOrMp3(out.filename)
          THEN out.status = 0
          ELSE /\ out.status = 400
               /\ out.trace = <<"auth", "extension">>

\* The right key with "mp3.txt" got 400.
C4_Witness ==
    /\ Checked
    /\ out.key = "my_secret_key_123"
    /\ out.filename = <<"m", "p", "3", ".", "t", "x", "t">>
    /\ out.status = 400

\* C5: a decoded clip of less than one second gets 200 "Human Voice" with
\* confidence 0.5 whatever the features and the language outcome are, and
\* analyze_voice_nature is not executed.
C5_ShortClip ==
    (Processed /\ out.decoded /\ out.audio.n < out.audio.sr) =>
        /\ out.status = 200
        /\ out.classification = "Human Voice"
        /\ out.confidence = 5000
        /\ "analyze_voice_nature" \notin Stages(out)

\* A clip one sample short of a second, whose features all lie under their
\* thresholds and whose language detection raised, got the default answer.
C5_Witness ==
    /\ Processed
    /\ out.audio = [n |-> 15999, sr |-> 16000]
    /\ out.fx.raises = "none"
    /\ out.fx.flatness < 18 /\ out.fx.energy < 15 /\ out.fx.onset < 2
    /\ out.fx.yin = [kind |-> "values", var |-> 11]
    /\ out.lang.raises = "detect_language"
    /\ out.status = 200

\* The reference rule of the claims, in units of 0.0001.
RefPitchVariance(fx) == IF fx.yin.kind = "values" THEN fx.yin.var ELSE 0
RefConditions(fx) ==
    [flatness |-> fx.flatness < 18,
     energy |-> fx.energy < 15,
     pitch |-> RefPitchVariance(fx) < 12,
     onset |-> fx.onset < 2]
RefScore(c) ==
    LET sum == (IF c.flatness THEN 3500 ELSE 0) + (IF c.energy THEN 2500 ELSE 0)
               + (IF c.pitch THEN 2500 ELSE 0) + (IF c.onset THEN 1500 ELSE 0)
    IN  IF sum > 10000 THEN 10000 ELSE sum
RefRound(x) == ((x + 50) \div 100) * 100
RefAnswer(c) ==
    IF RefScore(c) >= 8000
      THEN [classification |-> "AI-Generated Voice",
            confidence |-> RefRound(RefScore(c))]
      ELSE [classification |-> "Human Voice",
            confidence |-> RefRound(10000 - RefScore(c))]

Scored == Processed /\ out.decoded /\ out.audio.n >= out.audio.sr
                    /\ out.fx.raises = "none"

\* C6: for a clip of at least one second whose features were extracted, the
\* response is 200 with the classification and confidence of the reference
\* rule; no condition satisfied gives "Human Voice" 1.0, all four give
\* "AI-Generated Voice" 1.0.
C6_ReferenceRule ==
    Scored =>
        LET c == RefConditions(out.fx)
        IN  /\ out.status = 200
            /\ out.classification = RefAnswer(c).classification
            /\ out.confidence = RefAnswer(c).confidence
            /\ (~c.flatness /\ ~c.energy /\ ~c.pitch /\ ~c.onset) =>
                   /\ out.classification = "Human Voice"
                   /\ out.confidence = 10000
            /\ (c.flatness /\ c.energy /\ c.pitch /\ c.onset) =>
                   /\ out.classification = "AI-Generated Voice"
                   /\ out.confidence = 10000

\* A clip of exactly one second with every feature at its threshold (no
\* condition satisfied) was answered "Human Voice" with confidence 1.0.
C6_Witness ==
    /\ Scored
    /\ out.audio = [n |-> 16000, sr |-> 16000]
    /\ out.fx.flatness = 18 /\ out.fx.energy = 15 /\ out.fx.onset = 2
    /\ out.fx.yin = [kind |-> "values", var |-> 12]
    /\ out.classification = "Human Voice"
    /\ out.confidence = 10000

\* C7 as stated: an upload that decodes to more than 15 seconds gets
\* 400 "Audio too long" and is never scored.
C7_TooLong ==
    (Processed /\ out.decoded /\ out.audio.n > 15 * out.audio.sr) =>
        /\ out.status = 400
        /\ out.detail = "Audio too long. Max 15 seconds allowed."
        /\ "analyze_voice_nature" \notin Stages(out)

\* The label of the claims for a language outcome.
RefLabel(lang) ==
    IF lang.raises # "none" THEN "Unknown"
    ELSE LET top == CHOOSE c \in Codes :
                       \A d \in Codes \ {c} : lang.probs[d] < lang.probs[c]
         IN  CASE top = "en" -> "English"
               [] top = "ta" -> "Tamil"
               [] top = "hi" -> "Hindi"
               [] top = "te" -> "Telugu"
               [] top = "ml" -> "Malayalam"
               [] OTHER -> "Unknown"

\* The same request with a language identification that succeeds.
WithLanguage(run) ==
    detect_voice_process("tiny", run.readOK,
                         [ok |-> run.decoded, audio |-> run.audio],
                         [raises |-> "none",
                          probs |-> [c \in Codes |-> IF c = "en" THEN 70 ELSE 6]],
                         run.fx).run

\* C8: identify_language returns the label of the top code when the code is
\* in the table and "Unknown" otherwise or when a call inside it raises;
\* the 200 body carries that label; the status, classification and
\* confidence are those of the same request with a successful
\* identification.
C8_BestEffort ==
    (Processed /\ out.decoded) =>
        /\ out.language = RefLabel(out.lang)
        /\ out.status = 200 => out.detected_language = out.language
        /\ out.status = WithLanguage(out).status
        /\ out.classification = WithLanguage(out).classification
        /\ out.confidence = WithLanguage(out).confidence

\* whisper.load_model raised for a clip that was then scored as AI.
C8_Witness ==
    /\ Processed
    /\ out.lang.raises = "load_model"
    /\ out.language = "Unknown"
    /\ out.status = 200
    /\ out.classification = "AI-Generated Voice"

NoRepeat(t) == \A i, j \in 1..Len(t) : t[i] = t[j] => i = j

\* C9: when the read, the decoding or a feature extractor fails, the
\* response is 500 "Audio processing failed." with no part of a result,
\* and no stage ran twice; a failure of librosa.yin alone is not such a
\* failure.
C9_ProcessingFailed ==
    /\ (Processed /\ (~out.readOK \/ ~out.decoded
                      \/ (out.audio.n >= out.audio.sr
                          /\ out.fx.raises # "none"))) =>
           /\ out.status = 500
           /\ out.detail = "Audio processing failed."
           /\ out.classification = ""
           /\ out.confidence = -1
           /\ out.detected_language = ""
    /\ Processed => NoRepeat(out.trace)
    /\ (Scored /\ out.fx.yin.kind = "raise") => out.status = 200

\* librosa.feature.rms raised after the language had been identified.
C9_Witness ==
    /\ Processed
    /\ out.audio.n >= out.audio.sr
    /\ out.fx.raises = "rms"
    /\ out.language = "Tamil"
    /\ out.status = 500

Weights == <<3500, 2500, 2500, 1500>>
WeightSums ==
    { (IF 1 \in S THEN Weights[1] ELSE 0) + (IF 2 \in S THEN Weights[2] ELSE 0)
      + (IF 3 \in S THEN Weights[3] ELSE 0) + (IF 4 \in S THEN Weights[4] ELSE 0) :
        S \in SUBSET (1..4) }

\* C10: a clip of at least one second is "AI-Generated Voice" exactly when
\* the flatness, energy and pitch conditions all hold, whatever the onset
\* condition; the confidence is a weight sum or one minus a weight sum and
\* lies between 0.25 and 1.0.
C10_ThreeConditions ==
    (Scored /\ out.status = 200) =>
        LET c == RefConditions(out.fx)
        IN  /\ (out.classification = "AI-Generated Voice")
                   <=> (c.flatness /\ c.energy /\ c.pitch)
            /\ out.classification \in {"AI-Generated Voice", "Human Voice"}
            /\ out.confidence \in WeightSums \cup {10000 - s : s \in WeightSums}
            /\ out.confidence >= 2500
            /\ out.confidence <= 10000

\* Flatness, energy and onset conditions hold, the pitch one does not:
\* score 0.75, "Human Voice" with confidence 0.25.
C10_Witness ==
    /\ Scored
    /\ out.fx.flatness < 18 /\ out.fx.energy < 15 /\ out.fx.onset < 2
    /\ out.fx.yin = [kind |-> "values", var |-> 12]
    /\ out.classification = "Human Voice"
    /\ out.confidence = 2500

====
